---- MODULE Spec2Model ----
(***************************************************************************)
(* A model of dane/s3_util.py (path-to-key mapping, archive validation,   *)
(* S3 URI validation, clear-and-transfer, retrieval) of DANE-util.        *)
(*                                                                         *)
(* Strings are sequences of one-character strings, so that slicing,        *)
(* splitting, prefix tests and the lexicographic order of S3 listings are  *)
(* computed and not assumed.                                               *)
(***************************************************************************)
EXTENDS Integers, Sequences, FiniteSets, TLC

VARIABLES
    call,   \* the pure function under evaluation and its arguments
    ret,    \* its result: [state |-> "none"] until it has been evaluated
    bucket,             \* the keys of the objects the bucket holds
    pageSize,           \* the number of keys the store puts in one listing page
    pc,                 \* where the call in progress stands
    op,                 \* the call in progress and its arguments
    response,           \* download_file / clear_prefix: the last listing reply
    to_delete,          \* clear_prefix: the keys listed so far
    to_download,        \* download_file: the keys listed so far
    file_and_key_list,  \* transfer_to_s3: the pairs to upload
    idx,                \* position of the upload or download loop
    success,            \* download_file: success
    result,             \* what the call returned or raised
    puts,               \* the upload_file calls of this call, in order
    gets,               \* the download_fileobj calls of this call, in order
    lists,              \* the list requests of this call, in order
    failures,           \* the kinds of failed store requests of this call
    calls,              \* number of calls issued
    prev,               \* summary of the previous call
    task,               \* DANE.Task: the fields task_id, api and task_state
    api_calls,          \* the calls made on the api of the task, in order
    last_call,          \* the last method call on the task and how it ended
    other               \* the second caller of transfer_to_s3

vars ==
    <<call, ret, bucket, pageSize, pc, op, response, to_delete, to_download,
      file_and_key_list, idx, success, result, puts, gets, lists, failures,
      calls, prev, task, api_calls, last_call, other>>

NoRet == [state |-> "none"]

Returned(v) == [state |-> "returned", value |-> v]

\* Python None, and a value that is not None
None == <<>>

Some(v) == <<v>>

NoTask == [task_id |-> None, api |-> None, task_state |-> None]

NoOutcome == [kind |-> "none"]

NoCaller == [pc |-> "none"]

taskVars == <<task, api_calls, last_call>>

\* no Task and no second caller
Alone ==
    /\ task = NoTask
    /\ api_calls = <<>>
    /\ last_call = NoOutcome
    /\ other = NoCaller

(***************************************************************************)
(* Bounds of the model.                                                    *)
(***************************************************************************)
MaxList == 2      \* longest file_list handed to digest_file_list
MaxTail == 4      \* longest text after the scheme of a candidate URI
MaxKeys == 3      \* keys in one listing page and in one delete request (S3: 1000)
MaxCalls == 2     \* calls the caller issues one after the other
MaxIds == 2       \* task ids the api hands out
MaxApiCalls == 3  \* calls made on the api of a task

(***************************************************************************)
(* Strings.                                                                *)
(***************************************************************************)
StartsWith(s, p) == Len(p) <= Len(s) /\ SubSeq(s, 1, Len(p)) = p

EndsWith(s, p) == Len(p) <= Len(s) /\ SubSeq(s, Len(s) - Len(p) + 1, Len(s)) = p

\* Python s[-n:]: the last n characters, the whole string when it is shorter.
LastChars(s, n) == IF Len(s) <= n THEN s ELSE SubSeq(s, Len(s) - n + 1, Len(s))

\* Python s[n:]
DropChars(s, n) == IF Len(s) <= n THEN <<>> ELSE SubSeq(s, n + 1, Len(s))

\* Python s[:n]
TakeChars(s, n) == IF Len(s) <= n THEN s ELSE SubSeq(s, 1, n)

\* Python s.find(c), 1-based; 0 when c does not occur (Python: -1).
Find(s, c) ==
    IF \E i \in 1..Len(s) : s[i] = c
    THEN CHOOSE i \in 1..Len(s) : s[i] = c /\ \A j \in 1..(i - 1) : s[j] # c
    ELSE 0

\* the position of the last character of s that is in seps; 0 when none is
RFindAny(s, seps) ==
    IF \E i \in 1..Len(s) : s[i] \in seps
    THEN CHOOSE i \in 1..Len(s) : s[i] \in seps /\ \A j \in (i + 1)..Len(s) : s[j] \notin seps
    ELSE 0

\* Python "needle in s"
Contains(s, needle) ==
    \E i \in 1..(Len(s) - Len(needle) + 1) : SubSeq(s, i, i + Len(needle) - 1) = needle

\* number of occurrences of character c in s: len(s.split(c)) - 1
RECURSIVE CountChar(_, _)
CountChar(s, c) ==
    IF s = <<>> THEN 0
    ELSE (IF Head(s) = c THEN 1 ELSE 0) + CountChar(Tail(s), c)

\* The code point of a character (ASCII), which orders the keys of a listing.
Ord(c) ==
    CASE c = "." -> 46
      [] c = "/" -> 47
      [] c = "3" -> 51
      [] c = ":" -> 58
      [] c = "\\" -> 92
      [] c = "a" -> 97
      [] c = "b" -> 98
      [] c = "d" -> 100
      [] c = "e" -> 101
      [] c = "f" -> 102
      [] c = "g" -> 103
      [] c = "n" -> 110
      [] c = "o" -> 111
      [] c = "p" -> 112
      [] c = "q" -> 113
      [] c = "r" -> 114
      [] c = "s" -> 115
      [] c = "t" -> 116
      [] c = "u" -> 117
      [] c = "v" -> 118
      [] c = "w" -> 119
      [] c = "x" -> 120
      [] c = "z" -> 122

\* a < b in the byte order S3 lists keys in
LexLess(a, b) ==
    \E i \in 1..Len(b) :
        /\ i - 1 <= Len(a)
        /\ SubSeq(a, 1, i - 1) = SubSeq(b, 1, i - 1)
        /\ (i > Len(a) \/ Ord(a[i]) < Ord(b[i]))

RECURSIVE SortedSeq(_)
SortedSeq(S) ==
    IF S = {} THEN <<>>
    ELSE LET m == CHOOSE x \in S : \A y \in S : x = y \/ LexLess(x, y)
         IN  <<m>> \o SortedSeq(S \ {m})

SeqToSet(s) == {s[i] : i \in 1..Len(s)}

\* all sequences over S of length at most n
SeqsUpTo(S, n) == UNION {[1..k -> S] : k \in 0..n}

(***************************************************************************)
(* Paths: os.path (posixpath), ntpath and pathlib, as the code calls them. *)
(* The modelled paths hold no ':' and do not start with two separators,    *)
(* so ntpath sees neither a drive letter nor a UNC share in them.          *)
(***************************************************************************)
Slash == "/"
BackSlash == "\\"

\* os.path.basename: what follows the last '/'
os_path_basename(p) == DropChars(p, RFindAny(p, {Slash}))

\* ntpath.basename: what follows the last '/' or '\'
ntpath_basename(p) == DropChars(p, RFindAny(p, {Slash, BackSlash}))

\* the second path alone
os_path_join_second(a, b) == b

\* os.path.join(a, b)
os_path_join(a, b) ==
    IF b # <<>> /\ Head(b) = Slash THEN b
    ELSE IF a = <<>> \/ a[Len(a)] = Slash THEN a \o b
    ELSE a \o <<Slash>> \o b

\* os.path.splitext(p)[0]: p without its extension; leading dots of the
\* last component start no extension
os_path_splitext_root(p) ==
    LET sep == RFindAny(p, {Slash})
        dot == RFindAny(p, {"."})
    IN  IF dot > sep /\ \E i \in (sep + 1)..(dot - 1) : p[i] # "."
        THEN SubSeq(p, 1, dot - 1)
        ELSE p

\* pathlib: Path(p).parent, for a relative path without '.' or '..' parts
Dot == <<".">>
path_parent(p) ==
    LET i == RFindAny(p, {Slash})
    IN  IF i = 0 THEN Dot ELSE SubSeq(p, 1, i - 1)

(***************************************************************************)
(* The local file system the calls read: the tree test_s3_util.py builds   *)
(* (a directory holding a file, a sub-directory with a file and an empty   *)
(* sub-directory) next to a few plain files.                               *)
(***************************************************************************)
FsDirs ==
    { <<"d">>, <<"d", "/", "s">>, <<"d", "/", "a">> }

FsFiles ==
    { <<"f">>, <<"g">>, <<"d", "/", "u">>, <<"d", "/", "s", "/", "v">>,
      <<"w", "\\", "f">> }

os_path_isdir(p) == p \in FsDirs

os_path_isfile(p) == p \in FsFiles

os_path_exists(p) == p \in FsDirs \cup FsFiles \cup {Dot}

\* the names of the entries of directory dir that are in the set among, in
\* name order (os.walk leaves the order of the entries to the file system;
\* the order of the pairs is not part of any property below)
EntryNames(dir, among) ==
    SortedSeq({ DropChars(p, Len(dir) + 1) : p \in
        { q \in among :
            /\ StartsWith(q, dir \o <<Slash>>)
            /\ Len(q) > Len(dir) + 1
            /\ Find(DropChars(q, Len(dir) + 1), Slash) = 0 } })

\* os.walk(top), top-down: one (root, dirs, files) per directory of the tree
RECURSIVE os_walk(_)
RECURSIVE WalkEach(_, _)
os_walk(top) ==
    LET dirs == EntryNames(top, FsDirs)
        files == EntryNames(top, FsFiles)
    IN  << <<top, dirs, files>> >> \o WalkEach(top, dirs)

WalkEach(top, dirs) ==
    IF dirs = <<>> THEN <<>>
    ELSE os_walk(os_path_join(top, Head(dirs))) \o WalkEach(top, Tail(dirs))

(***************************************************************************)
(* dane/s3_util.py                                                         *)
(***************************************************************************)
COMPRESSED_TAR_EXTENSION == <<".", "t", "a", "r", ".", "g", "z">>

generate_asset_id_from_input_file(input_file, with_extension) ==
    LET file_name == ntpath_basename(input_file)
    IN  IF with_extension THEN file_name ELSE os_path_splitext_root(file_name)

is_valid_tar_path(archive_path) ==
    IF ~os_path_exists(path_parent(archive_path)) THEN FALSE
    ELSE IF LastChars(archive_path, 7) # COMPRESSED_TAR_EXTENSION THEN FALSE
    ELSE TRUE

\* an archive written wherever asked, whatever the members
tar_list_of_files_unchecked(archive_path, file_list, io_ok) == io_ok

\* tar_list_of_files: io_ok is whether tarfile could write the archive;
\* adding a member that does not exist raises FileNotFoundError, which is
\* caught and reported as False like every other error.
tar_list_of_files(archive_path, file_list, io_ok) ==
    IF ~is_valid_tar_path(archive_path) THEN FALSE
    ELSE /\ io_ok
         /\ ~os_path_isdir(archive_path)
         /\ \A i \in 1..Len(file_list) : os_path_exists(file_list[i])

\* [os.path.join(root, fn) for fn in names]
RECURSIVE JoinEach(_, _)
JoinEach(root, names) ==
    IF names = <<>> THEN <<>>
    ELSE <<os_path_join(root, Head(names))>> \o JoinEach(root, Tail(names))

\* digest_file_list without an archive path (the else branch): the loop
\* over file_list, and for a directory the loop over os.walk, each step of
\* which calls digest_file_list again on the entries of one walked directory
\* with the prefix extended by the basename of the listed directory f.
RECURSIVE digest_entries(_, _)
RECURSIVE digest_walk(_, _)
digest_entries(file_list, prefix) ==
    IF file_list = <<>> THEN <<>>
    ELSE LET f == Head(file_list)
             here ==
                IF os_path_isdir(f)
                THEN digest_walk(os_walk(f), os_path_join(prefix, os_path_basename(f)))
                ELSE << <<f, os_path_join(prefix, generate_asset_id_from_input_file(f, TRUE))>> >>
         IN  here \o digest_entries(Tail(file_list), prefix)

digest_walk(walked, prefix) ==
    IF walked = <<>> THEN <<>>
    ELSE LET root == Head(walked)[1]
             dirs == Head(walked)[2]
             files == Head(walked)[3]
         IN  digest_entries(JoinEach(root, dirs \o files), prefix)
                \o digest_walk(Tail(walked), prefix)

\* digest_file_list: [raised |-> TRUE] for the exception of line 85,
\* otherwise the list of (file, key) pairs.
digest_file_list(file_list, prefix, tar_archive_path, io_ok) ==
    IF tar_archive_path # <<>>
    THEN IF ~tar_list_of_files(tar_archive_path, file_list, io_ok)
         THEN [raised |-> TRUE, pairs |-> <<>>]
         ELSE [raised |-> FALSE,
               pairs |-> << <<tar_archive_path,
                              os_path_join(prefix,
                                  generate_asset_id_from_input_file(tar_archive_path, TRUE))>> >>]
    ELSE [raised |-> FALSE, pairs |-> digest_entries(file_list, prefix)]

\* validate_s3_uri: s3_uri[5:].split("/") has one part more than the text
\* after the scheme has '/' characters
validate_s3_uri(s3_uri) ==
    IF TakeChars(s3_uri, 5) # <<"s", "3", ":", "/", "/">> THEN FALSE
    ELSE IF CountChar(DropChars(s3_uri, 5), Slash) + 1 < 2 THEN FALSE
    ELSE TRUE

\* Python s[:i] for an index i that may be negative (counted from the end)
PyTake(s, i) ==
    IF i >= 0 THEN TakeChars(s, i)
    ELSE IF Len(s) + i <= 0 THEN <<>> ELSE SubSeq(s, 1, Len(s) + i)

\* the object name starting one character early: s3_uri[len(bucket) + 5:]
parse_s3_uri_from_slash(s3_uri) ==
    LET tmp == DropChars(s3_uri, 5)
        bkt == PyTake(tmp, Find(tmp, Slash) - 1)
    IN  [bucket |-> bkt, object_name |-> DropChars(s3_uri, Len(bkt) + 5)]

\* parse_s3_uri: tmp.find("/") is -1 when tmp has no '/', and tmp[:-1] is
\* then tmp without its last character
parse_s3_uri(s3_uri) ==
    LET tmp == DropChars(s3_uri, 5)
        bkt == PyTake(tmp, Find(tmp, Slash) - 1)
    IN  [bucket |-> bkt, object_name |-> DropChars(s3_uri, Len(bkt) + 6)]

(***************************************************************************)
(* Inputs of the mapping.                                                  *)
(***************************************************************************)
NoPath == <<"n">>                   \* names nothing on the file system

InputPaths == FsDirs \cup FsFiles \cup {NoPath}

DigestPrefixes == { <<>>, <<"p">>, <<"p", "/">>, <<"p", "/", "q">> }

TarPaths ==
    { <<>>,
      <<"x">> \o COMPRESSED_TAR_EXTENSION,
      <<"d", "/", "x">> \o COMPRESSED_TAR_EXTENSION,
      <<"w", "\\", "x">> \o COMPRESSED_TAR_EXTENSION,
      <<"n", "/", "x">> \o COMPRESSED_TAR_EXTENSION,
      <<"x", ".", "t", "g", "z">> }

(***************************************************************************)
(* The object store, as the boto3 client the code calls presents it.       *)
(*                                                                         *)
(* A listing returns the keys that start with Prefix and follow Marker in  *)
(* byte order, at most pageSize of them; the reply has no "Contents" entry *)
(* when no key matches.  ListObjectsV2 has no Marker parameter: the client *)
(* rejects the request before sending it (ParamValidationError).           *)
(* DeleteObjects takes at most MaxKeys keys in one request and rejects a   *)
(* longer list.  Any request may also fail in transport.                   *)
(***************************************************************************)
KeysUnder(b, prefix) == { k \in b : StartsWith(k, prefix) }

NoMarker == <<>>

ListReply(b, prefix, marker, n) ==
    LET keys == SortedSeq({ k \in KeysUnder(b, prefix) : LexLess(marker, k) })
        page == TakeChars(keys, n)
    IN  [HasContents |-> page # <<>>,
         Contents    |-> page,
         KeyCount    |-> Len(page),
         IsTruncated |-> Len(keys) > n]

NoReply == [HasContents |-> FALSE, Contents |-> <<>>, KeyCount |-> 0, IsTruncated |-> FALSE]

\* one entry of the log of list requests
ListRequest(api, prefix, marker, outcome, reply) ==
    [api |-> api, Prefix |-> prefix, Marker |-> marker, outcome |-> outcome, reply |-> reply]

DeleteAccepted(keys) == Len(keys) <= MaxKeys

(***************************************************************************)
(* Inputs of the store operations.                                         *)
(***************************************************************************)
InitKeys ==
    { <<"p", "/", "a">>, <<"p", "/", "f">>, <<"p", "/", "q", "/", "b">>,
      <<"p", "q">>, <<"z", "/", "c">> }

TransferPrefix == <<"p">>

TransferLists ==
    { <<>>,
      << <<"f">> >>,
      << <<"d">> >>,
      << <<"f">>, NoPath, <<"g">> >> }

TransferTarPaths ==
    { <<>>,
      <<"x">> \o COMPRESSED_TAR_EXTENSION,
      <<"n", "/", "x">> \o COMPRESSED_TAR_EXTENSION,
      <<"x", ".", "t", "g", "z">> }

DownloadNames ==
    { <<"p">>, <<"z">>, <<"q">>, <<"p", "/", "x">> \o COMPRESSED_TAR_EXTENSION }

\* URIs given to download_s3_uri: a valid one, one of another scheme and one
\* without object name
DownloadUris ==
    { <<"s", "3", ":", "/", "/", "b", "/", "p">>,
      <<"f", "t", "p", ":", "/", "/", "b", "/", "p">>,
      <<"s", "3", ":", "/", "/", "b">> }

OutputFolder == <<"o">>

(***************************************************************************)
(* State of a call of S3Store.transfer_to_s3 or S3Store.download_file.     *)
(* Calls are issued one after the other by a single caller.                *)
(***************************************************************************)
NoOp == [name |-> "none"]

NoResult == [kind |-> "none"]

ReturnedValue(v) == [kind |-> "returned", value |-> v]

Raised(exc, at) == [kind |-> "raised", exc |-> exc, at |-> at]

NoPrev == [name |-> "none"]

DownloadResult(ok, file_path) == [success |-> ok, file_path |-> file_path]

storeVars ==
    <<bucket, pageSize, pc, op, response, to_delete, to_download,
      file_and_key_list, idx, success, result, puts, gets, lists, failures,
      calls, prev>>

StoreIdle ==
    /\ pc = "idle"
    /\ op = NoOp
    /\ response = NoReply
    /\ to_delete = <<>>
    /\ to_download = <<>>
    /\ file_and_key_list = <<>>
    /\ idx = 1
    /\ success = FALSE
    /\ result = NoResult
    /\ puts = <<>>
    /\ gets = <<>>
    /\ lists = <<>>
    /\ failures = {}
    /\ calls = 0
    /\ prev = NoPrev

CallOver == pc \in {"idle", "done", "raised"}

\* what the caller remembers of the call that has just ended
Summary ==
    IF op.name = "transfer"
    THEN [name |-> "transfer", prefix |-> op.prefix, file_list |-> op.file_list,
          tar_archive_path |-> op.tar_archive_path,
          keys_after |-> KeysUnder(bucket, op.prefix),
          all_succeeded |-> failures = {},
          result |-> result]
    ELSE NoPrev

\* the locals of a fresh call that starts at step first with result res
EnterCallWith(newop, first, res) ==
    /\ CallOver
    /\ calls < MaxCalls
    /\ calls' = calls + 1
    /\ prev' = Summary
    /\ op' = newop
    /\ pc' = first
    /\ response' = NoReply
    /\ to_delete' = <<>>
    /\ to_download' = <<>>
    /\ file_and_key_list' = <<>>
    /\ idx' = 1
    /\ success' = FALSE
    /\ result' = res
    /\ puts' = <<>>
    /\ gets' = <<>>
    /\ lists' = <<>>
    /\ failures' = {}
    /\ UNCHANGED <<bucket, pageSize>>

EnterCall(newop, first) == EnterCallWith(newop, first, NoResult)

\* an exception leaves the call
Raise(exc, at) ==
    /\ pc' = "raised"
    /\ result' = Raised(exc, at)

(***************************************************************************)
(* S3Store.transfer_to_s3, with S3Store.clear_prefix                       *)
(***************************************************************************)
TransferCall ==
    \E fl \in TransferLists, tar \in TransferTarPaths :
        EnterCall([name |-> "transfer", prefix |-> TransferPrefix, file_list |-> fl,
                   tar_archive_path |-> tar],
                  "clear_list")

\* lines 190-192: a page is added to to_delete; the loop ends on a page that
\* is not truncated
ClearTakePage(reply) ==
    /\ response' = reply
    /\ to_delete' = to_delete \o reply.Contents
    /\ pc' = IF reply.IsTruncated THEN "clear_list_next" ELSE "clear_delete"
    /\ UNCHANGED result

\* line 185-186: the first list_objects request; response["Contents"] raises
\* KeyError when the reply has no Contents
ClearListFirst ==
    /\ op.name = "transfer"
    /\ pc = "clear_list"
    /\ \E ok \in BOOLEAN :
        LET reply == ListReply(bucket, op.prefix, NoMarker, pageSize)
        IN  IF ~ok
            THEN /\ lists' = Append(lists, ListRequest("list_objects", op.prefix, NoMarker, "failed", NoReply))
                 /\ failures' = failures \cup {"transport"}
                 /\ Raise("ClientError", "clear_prefix")
                 /\ UNCHANGED <<response, to_delete>>
            ELSE /\ lists' = Append(lists, ListRequest("list_objects", op.prefix, NoMarker, "ok", reply))
                 /\ UNCHANGED failures
                 /\ IF ~reply.HasContents
                    THEN /\ Raise("KeyError", "clear_prefix")
                         /\ response' = reply
                         /\ UNCHANGED to_delete
                    ELSE ClearTakePage(reply)
    /\ UNCHANGED <<bucket, pageSize, op, to_download, file_and_key_list, idx, success,
                   puts, gets, calls, prev>>

\* lines 193-195: the next list_objects request, from the last key of the
\* page in hand
ClearListNext ==
    /\ op.name = "transfer"
    /\ pc = "clear_list_next"
    /\ \E ok \in BOOLEAN :
        LET marker == response.Contents[Len(response.Contents)]
            reply == ListReply(bucket, op.prefix, marker, pageSize)
        IN  IF ~ok
            THEN /\ lists' = Append(lists, ListRequest("list_objects", op.prefix, marker, "failed", NoReply))
                 /\ failures' = failures \cup {"transport"}
                 /\ Raise("ClientError", "clear_prefix")
                 /\ UNCHANGED <<response, to_delete>>
            ELSE /\ lists' = Append(lists, ListRequest("list_objects", op.prefix, marker, "ok", reply))
                 /\ UNCHANGED failures
                 /\ IF ~reply.HasContents
                    THEN /\ Raise("KeyError", "clear_prefix")
                         /\ response' = reply
                         /\ UNCHANGED to_delete
                    ELSE ClearTakePage(reply)
    /\ UNCHANGED <<bucket, pageSize, op, to_download, file_and_key_list, idx, success,
                   puts, gets, calls, prev>>

\* a delete request that removes the first of its keys only
AfterDelete_first(b, keys) == IF keys = <<>> THEN b ELSE b \ {Head(keys)}

\* line 199: the bucket after delete_objects on keys
AfterDelete(b, keys) == b \ SeqToSet(keys)

\* line 199: one delete_objects request with every listed key; nothing
\* catches its failure
ClearDelete ==
    /\ op.name = "transfer"
    /\ pc = "clear_delete"
    /\ \E ok \in BOOLEAN :
        IF ~DeleteAccepted(to_delete)
        THEN /\ failures' = failures \cup {"rejected"}
             /\ Raise("ClientError", "clear_prefix")
             /\ UNCHANGED bucket
        ELSE IF ~ok
        THEN /\ failures' = failures \cup {"transport"}
             /\ Raise("ClientError", "clear_prefix")
             /\ UNCHANGED bucket
        ELSE /\ bucket' = AfterDelete(bucket, to_delete)
             /\ pc' = "digest"
             /\ UNCHANGED <<failures, result>>
    /\ UNCHANGED <<pageSize, op, response, to_delete, to_download, file_and_key_list,
                   idx, success, puts, gets, lists, calls, prev>>

\* lines 213-215: the mapping; the archive error of digest_file_list leaves
\* the call
TransferDigest ==
    /\ op.name = "transfer"
    /\ pc = "digest"
    /\ \E io_ok \in BOOLEAN :
        LET d == digest_file_list(op.file_list, op.prefix, op.tar_archive_path, io_ok)
        IN  IF d.raised
            THEN /\ Raise("Exception", "digest_file_list")
                 /\ UNCHANGED file_and_key_list
            ELSE /\ file_and_key_list' = d.pairs
                 /\ pc' = "upload"
                 /\ UNCHANGED result
    /\ UNCHANGED <<bucket, pageSize, op, response, to_delete, to_download, idx, success,
                   puts, gets, lists, failures, calls, prev>>

\* upload_file reads the local file: a file of the file system, or the
\* archive this call has built
LocalReadable(f) ==
    os_path_isfile(f) \/ (op.tar_archive_path # <<>> /\ f = op.tar_archive_path)

AfterUpload_continue(uploaded) == "upload"

\* lines 218-227: after an upload, the loop goes on or the call returns False
AfterUpload(uploaded) == IF uploaded THEN "upload" ELSE "done"

TransferUpload ==
    /\ op.name = "transfer"
    /\ pc = "upload"
    /\ idx <= Len(file_and_key_list)
    /\ \E ok \in BOOLEAN :
        LET f == file_and_key_list[idx][1]
            k == file_and_key_list[idx][2]
            uploaded == ok /\ LocalReadable(f)
        IN  /\ puts' = Append(puts, [Filename |-> f, Key |-> k, ok |-> uploaded])
            /\ bucket' = IF uploaded THEN bucket \cup {k} ELSE bucket
            /\ failures' = IF uploaded THEN failures
                           ELSE failures \cup {IF ok THEN "local" ELSE "transport"}
            /\ pc' = AfterUpload(uploaded)
            /\ IF AfterUpload(uploaded) = "done"
               THEN result' = ReturnedValue(FALSE) /\ UNCHANGED idx
               ELSE idx' = idx + 1 /\ UNCHANGED result
    /\ UNCHANGED <<pageSize, op, response, to_delete, to_download, file_and_key_list,
                   success, gets, lists, calls, prev>>

\* line 228
TransferReturn ==
    /\ op.name = "transfer"
    /\ pc = "upload"
    /\ idx > Len(file_and_key_list)
    /\ pc' = "done"
    /\ result' = ReturnedValue(TRUE)
    /\ UNCHANGED <<bucket, pageSize, op, response, to_delete, to_download,
                   file_and_key_list, idx, success, puts, gets, lists, failures,
                   calls, prev>>

(***************************************************************************)
(* S3Store.download_file                                                   *)
(***************************************************************************)
output_path(object_name) == os_path_join(OutputFolder, os_path_basename(object_name))

TarGz == <<"t", "a", "r", ".", "g", "z">>

\* every object name takes the listing branch
FirstStep_list(object_name) == "list_v2"

\* line 239: the branch of download_file
FirstStep(object_name) ==
    IF Contains(object_name, TarGz) THEN "get_single" ELSE "list_v2"

\* key.split("/")
RECURSIVE Split(_, _)
Split(s, c) ==
    IF Find(s, c) = 0 THEN <<s>>
    ELSE <<SubSeq(s, 1, Find(s, c) - 1)>> \o Split(DropChars(s, Find(s, c)), c)

\* Python seq[lo:hi] for lo >= 0 and hi < 0
PySlice(seq, lo, hi) ==
    IF lo + 1 > Len(seq) + hi THEN <<>> ELSE SubSeq(seq, lo + 1, Len(seq) + hi)

\* os.path.join(a, *parts)
RECURSIVE os_path_join_all(_, _)
os_path_join_all(a, parts) ==
    IF parts = <<>> THEN a
    ELSE os_path_join_all(os_path_join(a, Head(parts)), Tail(parts))

\* the sub-directories taken from the second segment on: splitpath[1:-1]
key_subpath_from_second(key) == PySlice(Split(key, Slash), 1, -1)

\* line 272: subpath = splitpath[2:-1]
key_subpath(key) == PySlice(Split(key, Slash), 2, -1)

\* line 272: basename = splitpath[-1]
key_basename(key) == Split(key, Slash)[Len(Split(key, Slash))]

\* lines 273, 278: the local file an object of the listing is written to
local_file(object_name, key) ==
    os_path_join(os_path_join_all(output_path(object_name), key_subpath(key)),
                 key_basename(key))

\* lines 233-239, 248
DownloadCall ==
    \E name \in DownloadNames :
        EnterCall([name |-> "download", object_name |-> name], FirstStep(name))

\* the store client made before the URI is looked at
StoreBuilt_first(valid) == TRUE

\* line 161: download_s3_uri makes its S3Store after the URI has passed
StoreBuilt(valid) == valid

\* lines 156-164: download_s3_uri; a URI that fails validation ends the
\* call at once, any other continues as download_file on the parsed name
DownloadUriCall ==
    \E uri \in DownloadUris :
        LET valid == validate_s3_uri(uri)
        IN  IF ~valid
            THEN EnterCallWith([name |-> "download_s3_uri", s3_uri |-> uri,
                                s3_store |-> StoreBuilt(valid)],
                               "done", ReturnedValue(DownloadResult(FALSE, <<>>)))
            ELSE EnterCall([name |-> "download",
                            object_name |-> parse_s3_uri(uri).object_name,
                            s3_uri |-> uri, s3_store |-> StoreBuilt(valid)],
                           FirstStep(parse_s3_uri(uri).object_name))

\* lines 240-246 and 285: the single object, fetched under its own name
DownloadSingle ==
    /\ op.name = "download"
    /\ pc = "get_single"
    /\ \E ok \in BOOLEAN :
        LET got == ok /\ op.object_name \in bucket
        IN  /\ gets' = Append(gets, [Key |-> op.object_name, ok |-> got,
                                     Filename |-> output_path(op.object_name)])
            /\ failures' = IF got THEN failures ELSE failures \cup {"transport"}
            /\ success' = got
            /\ result' = ReturnedValue(DownloadResult(got, output_path(op.object_name)))
            /\ pc' = "done"
    /\ UNCHANGED <<bucket, pageSize, op, response, to_delete, to_download,
                   file_and_key_list, idx, puts, lists, calls, prev>>

\* lines 258-262: a page is added to to_download; the loop ends on a page
\* that is not truncated, and line 268 sets success
DownloadTakePage(reply) ==
    /\ response' = reply
    /\ to_download' = to_download \o reply.Contents
    /\ pc' = IF reply.IsTruncated THEN "list_v2_next" ELSE "get"
    /\ success' = ~reply.IsTruncated
    /\ UNCHANGED result

\* lines 248-253: the first list_objects_v2 request; no key at all fails the
\* call
DownloadListFirst ==
    /\ op.name = "download"
    /\ pc = "list_v2"
    /\ \E ok \in BOOLEAN :
        LET reply == ListReply(bucket, op.object_name, NoMarker, pageSize)
        IN  IF ~ok
            THEN /\ lists' = Append(lists, ListRequest("list_objects_v2", op.object_name, NoMarker, "failed", NoReply))
                 /\ failures' = failures \cup {"transport"}
                 /\ Raise("ClientError", "download_file")
                 /\ UNCHANGED <<response, to_download, success>>
            ELSE /\ lists' = Append(lists, ListRequest("list_objects_v2", op.object_name, NoMarker, "ok", reply))
                 /\ UNCHANGED failures
                 /\ IF reply.KeyCount = 0
                    THEN /\ response' = reply
                         /\ success' = FALSE
                         /\ result' = ReturnedValue(DownloadResult(FALSE, output_path(op.object_name)))
                         /\ pc' = "done"
                         /\ UNCHANGED to_download
                    ELSE DownloadTakePage(reply)
    /\ UNCHANGED <<bucket, pageSize, op, to_delete, file_and_key_list, idx, puts, gets,
                   calls, prev>>

\* whether the client accepts list_objects_v2(Bucket, Prefix, Marker)
V2AcceptsMarker == FALSE

\* lines 263-267: the continuation request passes Marker to list_objects_v2
DownloadListNext ==
    /\ op.name = "download"
    /\ pc = "list_v2_next"
    /\ \E ok \in BOOLEAN :
        LET marker == response.Contents[Len(response.Contents)]
            reply == ListReply(bucket, op.object_name, marker, pageSize)
        IN  IF ~V2AcceptsMarker
            THEN /\ lists' = Append(lists, ListRequest("list_objects_v2", op.object_name, marker, "rejected", NoReply))
                 /\ failures' = failures \cup {"rejected"}
                 /\ Raise("ParamValidationError", "download_file")
                 /\ UNCHANGED <<response, to_download, success>>
            ELSE IF ~ok
            THEN /\ lists' = Append(lists, ListRequest("list_objects_v2", op.object_name, marker, "failed", NoReply))
                 /\ failures' = failures \cup {"transport"}
                 /\ Raise("ClientError", "download_file")
                 /\ UNCHANGED <<response, to_download, success>>
            ELSE /\ lists' = Append(lists, ListRequest("list_objects_v2", op.object_name, marker, "ok", reply))
                 /\ UNCHANGED failures
                 /\ DownloadTakePage(reply)
    /\ UNCHANGED <<bucket, pageSize, op, to_delete, file_and_key_list, idx, puts, gets,
                   calls, prev>>

AfterGet_last(so_far, got) == got

\* lines 276-283: success after one more download
AfterGet(so_far, got) == so_far /\ got

\* lines 269-283: one object of to_download; a failure is recorded and the
\* loop goes on
DownloadGet ==
    /\ op.name = "download"
    /\ pc = "get"
    /\ idx <= Len(to_download)
    /\ \E ok \in BOOLEAN :
        LET key == to_download[idx]
            got == ok /\ key \in bucket
        IN  /\ gets' = Append(gets, [Key |-> key, ok |-> got,
                                     Filename |-> local_file(op.object_name, key)])
            /\ failures' = IF got THEN failures ELSE failures \cup {"transport"}
            /\ success' = AfterGet(success, got)
            /\ idx' = idx + 1
    /\ UNCHANGED <<bucket, pageSize, pc, op, response, to_delete, to_download,
                   file_and_key_list, result, puts, lists, calls, prev>>

\* lines 285-289
DownloadReturn ==
    /\ op.name = "download"
    /\ pc = "get"
    /\ idx > Len(to_download)
    /\ result' = ReturnedValue(DownloadResult(success, output_path(op.object_name)))
    /\ pc' = "done"
    /\ UNCHANGED <<bucket, pageSize, op, response, to_delete, to_download,
                   file_and_key_list, idx, success, puts, gets, lists, failures,
                   calls, prev>>

(***************************************************************************)
(* Spec: a caller that issues at most MaxCalls calls, one after the other, *)
(* on a bucket that starts with any subset of InitKeys.                    *)
(***************************************************************************)
Init ==
    /\ bucket \in SUBSET InitKeys
    /\ pageSize \in 1..MaxKeys
    /\ StoreIdle
    /\ Alone
    /\ call = [fn |-> "none"]
    /\ ret = NoRet

Next ==
    \/ (TransferCall /\ UNCHANGED <<call, ret, taskVars, other>>)
    \/ (ClearListFirst /\ UNCHANGED <<call, ret, taskVars, other>>)
    \/ (ClearListNext /\ UNCHANGED <<call, ret, taskVars, other>>)
    \/ (ClearDelete /\ UNCHANGED <<call, ret, taskVars, other>>)
    \/ (TransferDigest /\ UNCHANGED <<call, ret, taskVars, other>>)
    \/ (TransferUpload /\ UNCHANGED <<call, ret, taskVars, other>>)
    \/ (TransferReturn /\ UNCHANGED <<call, ret, taskVars, other>>)
    \/ (DownloadCall /\ UNCHANGED <<call, ret, taskVars, other>>)
    \/ (DownloadUriCall /\ UNCHANGED <<call, ret, taskVars, other>>)
    \/ (DownloadSingle /\ UNCHANGED <<call, ret, taskVars, other>>)
    \/ (DownloadListFirst /\ UNCHANGED <<call, ret, taskVars, other>>)
    \/ (DownloadListNext /\ UNCHANGED <<call, ret, taskVars, other>>)
    \/ (DownloadGet /\ UNCHANGED <<call, ret, taskVars, other>>)
    \/ (DownloadReturn /\ UNCHANGED <<call, ret, taskVars, other>>)

Spec == Init /\ [][Next]_vars

(***************************************************************************)
(* SpecDigest: digest_file_list applied to every input within the bounds.  *)
(***************************************************************************)
InitDigest ==
    /\ call \in [fn : {"digest_file_list"},
                 file_list : SeqsUpTo(InputPaths, MaxList),
                 prefix : DigestPrefixes,
                 tar_archive_path : TarPaths]
    /\ ret = NoRet
    /\ bucket = {}
    /\ pageSize = 1
    /\ StoreIdle
    /\ Alone

Digest ==
    /\ call.fn = "digest_file_list"
    /\ ret.state = "none"
    /\ \E io_ok \in BOOLEAN :
          ret' = Returned(digest_file_list(call.file_list, call.prefix,
                                           call.tar_archive_path, io_ok))
    /\ UNCHANGED <<call, storeVars, taskVars, other>>

NextDigest == Digest

SpecDigest == InitDigest /\ [][NextDigest]_vars

(***************************************************************************)
(* SpecUri: validate_s3_uri applied to every candidate URI: a scheme       *)
(* followed by at most MaxTail characters of bucket, object name and '/'.  *)
(***************************************************************************)
UriSchemes ==
    { <<"s", "3", ":", "/", "/">>,
      <<"f", "t", "p", ":", "/", "/">>,
      <<"s", "3", ":", "/">>,
      <<>> }

UriTails == SeqsUpTo({"b", "o", Slash}, MaxTail)

CandidateUris == { sch \o tail : sch \in UriSchemes, tail \in UriTails }

InitUri ==
    /\ call \in [fn : {"validate_s3_uri", "parse_s3_uri"}, s3_uri : CandidateUris]
    /\ ret = NoRet
    /\ bucket = {}
    /\ pageSize = 1
    /\ StoreIdle
    /\ Alone

Validate ==
    /\ call.fn = "validate_s3_uri"
    /\ ret.state = "none"
    /\ ret' = Returned(validate_s3_uri(call.s3_uri))
    /\ UNCHANGED <<call, storeVars, taskVars, other>>

Parse ==
    /\ call.fn = "parse_s3_uri"
    /\ ret.state = "none"
    /\ ret' = Returned(parse_s3_uri(call.s3_uri))
    /\ UNCHANGED <<call, storeVars, taskVars, other>>

NextUri == Validate \/ Parse

SpecUri == InitUri /\ [][NextUri]_vars

(***************************************************************************)
(* SpecRace: two callers of transfer_to_s3 on the same bucket and prefix.  *)
(* The first caller is the caller of Spec, issuing one call; the second    *)
(* runs the same steps on its own locals, held in the record other, with   *)
(* another file list.  The steps of the two interleave at every request.   *)
(***************************************************************************)
OtherLists == { << <<"g">> >>, << <<"f">>, <<"g">> >> }

callerVars ==
    <<pageSize, pc, op, response, to_delete, to_download, file_and_key_list, idx,
      success, result, puts, gets, lists, failures, calls, prev>>

OtherRaise(exc, at) == [other EXCEPT !.pc = "raised", !.result = Raised(exc, at)]

\* line 212
OtherCall ==
    /\ other.pc = "none"
    /\ \E fl \in OtherLists :
        other' = [pc |-> "clear_list", file_list |-> fl, response |-> NoReply,
                  to_delete |-> <<>>, file_and_key_list |-> <<>>, idx |-> 1,
                  result |-> NoResult]
    /\ UNCHANGED bucket

\* lines 185-195: one list_objects request of clear_prefix, the first or a
\* continuation from the last key of the page in hand
OtherClearList ==
    /\ other.pc \in {"clear_list", "clear_list_next"}
    /\ \E ok \in BOOLEAN :
        LET marker == IF other.pc = "clear_list" THEN NoMarker
                      ELSE other.response.Contents[Len(other.response.Contents)]
            reply == ListReply(bucket, TransferPrefix, marker, pageSize)
        IN  other' =
              IF ~ok THEN OtherRaise("ClientError", "clear_prefix")
              ELSE IF ~reply.HasContents
              THEN [OtherRaise("KeyError", "clear_prefix") EXCEPT !.response = reply]
              ELSE [other EXCEPT
                      !.response = reply,
                      !.to_delete = other.to_delete \o reply.Contents,
                      !.pc = IF reply.IsTruncated THEN "clear_list_next" ELSE "clear_delete"]
    /\ UNCHANGED bucket

\* line 199
OtherClearDelete ==
    /\ other.pc = "clear_delete"
    /\ \E ok \in BOOLEAN :
        IF ~DeleteAccepted(other.to_delete) \/ ~ok
        THEN /\ other' = OtherRaise("ClientError", "clear_prefix")
             /\ UNCHANGED bucket
        ELSE /\ bucket' = AfterDelete(bucket, other.to_delete)
             /\ other' = [other EXCEPT !.pc = "digest"]

\* lines 213-215: no archive is asked for
OtherDigest ==
    /\ other.pc = "digest"
    /\ other' = [other EXCEPT
                   !.file_and_key_list =
                       digest_file_list(other.file_list, TransferPrefix, <<>>, TRUE).pairs,
                   !.pc = "upload"]
    /\ UNCHANGED bucket

\* lines 218-227
OtherUpload ==
    /\ other.pc = "upload"
    /\ other.idx <= Len(other.file_and_key_list)
    /\ \E ok \in BOOLEAN :
        LET f == other.file_and_key_list[other.idx][1]
            k == other.file_and_key_list[other.idx][2]
            uploaded == ok /\ os_path_isfile(f)
        IN  /\ bucket' = IF uploaded THEN bucket \cup {k} ELSE bucket
            /\ other' = IF AfterUpload(uploaded) = "done"
                         THEN [other EXCEPT !.pc = "done", !.result = ReturnedValue(FALSE)]
                         ELSE [other EXCEPT !.idx = other.idx + 1]

\* line 228
OtherReturn ==
    /\ other.pc = "upload"
    /\ other.idx > Len(other.file_and_key_list)
    /\ other' = [other EXCEPT !.pc = "done", !.result = ReturnedValue(TRUE)]
    /\ UNCHANGED bucket

InitRace ==
    /\ bucket \in SUBSET InitKeys
    /\ pageSize \in 1..MaxKeys
    /\ pc = "idle"
    /\ op = NoOp
    /\ response = NoReply
    /\ to_delete = <<>>
    /\ to_download = <<>>
    /\ file_and_key_list = <<>>
    /\ idx = 1
    /\ success = FALSE
    /\ result = NoResult
    /\ puts = <<>>
    /\ gets = <<>>
    /\ lists = <<>>
    /\ failures = {}
    /\ calls = MaxCalls - 1
    /\ prev = NoPrev
    /\ Alone
    /\ call = [fn |-> "none"]
    /\ ret = NoRet

NextRace ==
    \/ (TransferCall /\ UNCHANGED <<call, ret, taskVars, other>>)
    \/ (ClearListFirst /\ UNCHANGED <<call, ret, taskVars, other>>)
    \/ (ClearListNext /\ UNCHANGED <<call, ret, taskVars, other>>)
    \/ (ClearDelete /\ UNCHANGED <<call, ret, taskVars, other>>)
    \/ (TransferDigest /\ UNCHANGED <<call, ret, taskVars, other>>)
    \/ (TransferUpload /\ UNCHANGED <<call, ret, taskVars, other>>)
    \/ (TransferReturn /\ UNCHANGED <<call, ret, taskVars, other>>)
    \/ (OtherCall /\ UNCHANGED <<call, ret, taskVars, callerVars>>)
    \/ (OtherClearList /\ UNCHANGED <<call, ret, taskVars, callerVars>>)
    \/ (OtherClearDelete /\ UNCHANGED <<call, ret, taskVars, callerVars>>)
    \/ (OtherDigest /\ UNCHANGED <<call, ret, taskVars, callerVars>>)
    \/ (OtherUpload /\ UNCHANGED <<call, ret, taskVars, callerVars>>)
    \/ (OtherReturn /\ UNCHANGED <<call, ret, taskVars, callerVars>>)

SpecRace == InitRace /\ [][NextRace]_vars

(***************************************************************************)
(* DANE/tasks.py: the class Task.  The api (a base_handler) is outside the *)
(* class: it answers register with a task id and isDone with a bool, and   *)
(* any of its methods may raise.                                           *)
(***************************************************************************)
DoneState == 200

TaskIds == 1..MaxIds

Handlers == {"h1", "h2"}

JobIds == {"j1"}

TaskStateValues == {DoneState, DoneState + 300}

Optional(S) == {None} \cup { Some(v) : v \in S }

\* run with the registration left unchecked
run_guard_endpoint_only(t) ==
    IF t.api = None THEN "MissingEndpointError" ELSE "ok"

\* isDone with the registration checked before task_state is looked at
isDone_guard_registered_first(t) ==
    IF t.task_id = None THEN "APIRegistrationError"
    ELSE IF t.task_state # None THEN "state"
    ELSE IF t.api = None THEN "MissingEndpointError"
    ELSE "ok"

\* lines 40-44
register_guard(t) ==
    IF t.task_id # None THEN "APIRegistrationError"
    ELSE IF t.api = None THEN "MissingEndpointError"
    ELSE "ok"

\* lines 54-59
run_guard(t) ==
    IF t.task_id = None THEN "APIRegistrationError"
    ELSE IF t.api = None THEN "MissingEndpointError"
    ELSE "ok"

\* lines 71-76
retry_guard(t) ==
    IF t.task_id = None THEN "APIRegistrationError"
    ELSE IF t.api = None THEN "MissingEndpointError"
    ELSE "ok"

\* lines 90-98: "state" when task_state answers the question
isDone_guard(t) ==
    IF t.task_state # None THEN "state"
    ELSE IF t.task_id = None THEN "APIRegistrationError"
    ELSE IF t.api = None THEN "MissingEndpointError"
    ELSE "ok"

\* how a method call ended, with the task and the number of api calls as
\* they were when it started
MethodReturned(name, v) ==
    [kind |-> "returned", method |-> name, value |-> v,
     before |-> task, calls_before |-> Len(api_calls)]

MethodRaised(name, exc) ==
    [kind |-> "raised", method |-> name, exc |-> exc,
     before |-> task, calls_before |-> Len(api_calls)]

\* one call on the api
ApiCall(name, ok) ==
    [method |-> name, api |-> task.api, task_id |-> task.task_id, ok |-> ok]

\* lines 34-47
Register ==
    \E job_id \in JobIds, new_id \in TaskIds, ok \in BOOLEAN :
        IF register_guard(task) # "ok"
        THEN /\ last_call' = MethodRaised("register", register_guard(task))
             /\ UNCHANGED <<task, api_calls>>
        ELSE /\ Len(api_calls) < MaxApiCalls
             /\ api_calls' = Append(api_calls, ApiCall("register", ok))
             /\ IF ok
                THEN /\ task' = [task EXCEPT !.task_id = Some(new_id)]
                     /\ last_call' = MethodReturned("register", "self")
                ELSE /\ last_call' = MethodRaised("register", "ApiError")
                     /\ UNCHANGED task

\* lines 49-62
Run ==
    \E ok \in BOOLEAN :
        IF run_guard(task) # "ok"
        THEN /\ last_call' = MethodRaised("run", run_guard(task))
             /\ UNCHANGED <<task, api_calls>>
        ELSE /\ Len(api_calls) < MaxApiCalls
             /\ api_calls' = Append(api_calls, ApiCall("run", ok))
             /\ last_call' = IF ok THEN MethodReturned("run", "self")
                                   ELSE MethodRaised("run", "ApiError")
             /\ UNCHANGED task

\* lines 64-79
Retry ==
    \E ok \in BOOLEAN :
        IF retry_guard(task) # "ok"
        THEN /\ last_call' = MethodRaised("retry", retry_guard(task))
             /\ UNCHANGED <<task, api_calls>>
        ELSE /\ Len(api_calls) < MaxApiCalls
             /\ api_calls' = Append(api_calls, ApiCall("retry", ok))
             /\ last_call' = IF ok THEN MethodReturned("retry", "self")
                                   ELSE MethodRaised("retry", "ApiError")
             /\ UNCHANGED task

\* lines 81-100: answer is what the api says when it is asked
IsDone ==
    \E ok \in BOOLEAN, answer \in BOOLEAN :
        LET g == isDone_guard(task)
        IN  IF g = "state"
            THEN /\ last_call' = MethodReturned("isDone", task.task_state = Some(DoneState))
                 /\ UNCHANGED <<task, api_calls>>
            ELSE IF g # "ok"
            THEN /\ last_call' = MethodRaised("isDone", g)
                 /\ UNCHANGED <<task, api_calls>>
            ELSE /\ Len(api_calls) < MaxApiCalls
                 /\ api_calls' = Append(api_calls, ApiCall("isDone", ok))
                 /\ last_call' = IF ok THEN MethodReturned("isDone", answer)
                                       ELSE MethodRaised("isDone", "ApiError")
                 /\ UNCHANGED task

\* lines 102-111
SetApi ==
    \E a \in Optional(Handlers) :
        /\ task' = [task EXCEPT !.api = a]
        /\ last_call' = MethodReturned("set_api", "self")
        /\ UNCHANGED api_calls

\* lines 23-32: a task made with any task_id, api and task_state
InitTask ==
    /\ task \in [task_id : Optional(TaskIds), api : Optional(Handlers),
                  task_state : Optional(TaskStateValues)]
    /\ api_calls = <<>>
    /\ last_call = NoOutcome
    /\ other = NoCaller
    /\ call = [fn |-> "none"]
    /\ ret = NoRet
    /\ bucket = {}
    /\ pageSize = 1
    /\ StoreIdle

NextTask ==
    \/ (Register /\ UNCHANGED <<call, ret, storeVars, other>>)
    \/ (Run /\ UNCHANGED <<call, ret, storeVars, other>>)
    \/ (Retry /\ UNCHANGED <<call, ret, storeVars, other>>)
    \/ (IsDone /\ UNCHANGED <<call, ret, storeVars, other>>)
    \/ (SetApi /\ UNCHANGED <<call, ret, storeVars, other>>)

SpecTask == InitTask /\ [][NextTask]_vars

(***************************************************************************)
(* Claims about transfer_to_s3 and download_file (Spec).                   *)
(***************************************************************************)
InTransfer == op.name = "transfer"

InDownload == op.name = "download"

LastPut == puts[Len(puts)]

\* C1: the uploads are attempted one at a time in the order of the pairs;
\* nothing is attempted after a failed upload, which makes the call return
\* False at once; what the earlier uploads wrote stays in the bucket; the
\* call returns True only when every pair has been uploaded.
C1_UploadFailFast ==
    InTransfer =>
        /\ Len(puts) <= Len(file_and_key_list)
        /\ \A j \in 1..Len(puts) :
              /\ puts[j].Filename = file_and_key_list[j][1]
              /\ puts[j].Key = file_and_key_list[j][2]
              /\ (j < Len(puts) => puts[j].ok)
              /\ (puts[j].ok => puts[j].Key \in bucket)
        /\ ((puts # <<>> /\ ~LastPut.ok) => (pc = "done" /\ result = ReturnedValue(FALSE)))
        /\ (result = ReturnedValue(FALSE) => (puts # <<>> /\ ~LastPut.ok))
        /\ (result = ReturnedValue(TRUE) =>
              /\ Len(puts) = Len(file_and_key_list)
              /\ \A j \in 1..Len(puts) : puts[j].ok)

\* the second of three uploads has failed: two puts were made, the call
\* has returned False and the first object is in the bucket
C1_Witness ==
    /\ InTransfer
    /\ pc = "done"
    /\ Len(file_and_key_list) = 3
    /\ Len(puts) = 2
    /\ puts[1].ok
    /\ ~puts[2].ok
    /\ puts[1].Key \in bucket
    /\ result = ReturnedValue(FALSE)

PrefixMode == InDownload /\ ~Contains(op.object_name, TarGz)

\* C2: when download_file returns in prefix mode with at least one key
\* listed, it has attempted exactly one get per listed key, in order, and
\* success is True exactly when every one of these gets succeeded.
C2_DownloadFailContinue ==
    (PrefixMode /\ pc = "done" /\ to_download # <<>>) =>
        /\ Len(gets) = Len(to_download)
        /\ \A j \in 1..Len(gets) : gets[j].Key = to_download[j]
        /\ \A i, j \in 1..Len(to_download) : i # j => to_download[i] # to_download[j]
        /\ (result.value.success <=> \A j \in 1..Len(gets) : gets[j].ok)

\* the second of three gets has failed, the third was attempted and
\* succeeded, and the result says success = False
C2_Witness ==
    /\ PrefixMode
    /\ pc = "done"
    /\ Len(to_download) = 3
    /\ Len(gets) = 3
    /\ gets[1].ok
    /\ ~gets[2].ok
    /\ gets[3].ok
    /\ ~result.value.success

\* the mapping a transfer call uploads when the archive can be written
MappingOf(o) == digest_file_list(o.file_list, o.prefix, o.tar_archive_path, TRUE)

MappedKeys(o) == { MappingOf(o).pairs[i][2] : i \in 1..Len(MappingOf(o).pairs) }

\* a transfer call has ended, every store request it made succeeded and its
\* file list could be mapped
TransferEndedAllSucceeded ==
    /\ InTransfer
    /\ pc \in {"done", "raised"}
    /\ failures = {}
    /\ ~MappingOf(op).raised
    /\ ~(result.kind = "raised" /\ result.at = "digest_file_list")

\* C3: after a transfer_to_s3 call all of whose store requests succeeded,
\* the keys under the prefix are exactly the keys of the mapping, whatever
\* the bucket held before (an empty prefix included); so a second call with
\* the same arguments leaves the same keys as the first.
C3_TransferReplacesPrefix ==
    TransferEndedAllSucceeded =>
        /\ KeysUnder(bucket, op.prefix) = MappedKeys(op)
        /\ ((/\ prev.name = "transfer"
             /\ prev.all_succeeded
             /\ prev.prefix = op.prefix
             /\ prev.file_list = op.file_list
             /\ prev.tar_archive_path = op.tar_archive_path)
            => prev.keys_after = KeysUnder(bucket, op.prefix))

\* control has left clear_prefix, by its end or by an exception, and no put
\* has been issued yet
ClearStepOver ==
    /\ InTransfer
    /\ puts = <<>>
    /\ \/ pc \in {"digest", "upload"}
       \/ (pc = "raised" /\ result.at = "clear_prefix")

\* C4: for any number of keys under the prefix (none, or more than a page
\* or a delete request holds), the clear step finishes, and between its end
\* and the first put the bucket holds no key under the prefix; only a
\* transport failure of a store request excuses it.
C4_ClearStepEmptiesPrefix ==
    (ClearStepOver /\ "transport" \notin failures) =>
        /\ pc # "raised"
        /\ KeysUnder(bucket, op.prefix) = {}

\* the listing loop of the call in progress is over, and no list request
\* failed in transport; collected is what it gathered, prefix what it listed
ClearListingOver ==
    /\ InTransfer
    /\ "transport" \notin failures
    /\ \/ pc = "clear_delete"
       \/ (pc = "raised" /\ result.exc = "KeyError")

DownloadListingOver ==
    /\ PrefixMode
    /\ "transport" \notin failures
    /\ \/ pc \in {"get", "done"}
       \/ (pc = "raised" /\ result.exc = "ParamValidationError")

ExactlyOnce(collected, keys) ==
    /\ SeqToSet(collected) = keys
    /\ Len(collected) = Cardinality(keys)

\* every continuation request carries the prefix and the last key of the
\* page before it
MarkersFollowPages(prefix) ==
    \A j \in 1..Len(lists) :
        /\ lists[j].Prefix = prefix
        /\ lists[j].Marker =
              IF j = 1 THEN NoMarker
              ELSE lists[j - 1].reply.Contents[Len(lists[j - 1].reply.Contents)]

\* C5: when the listing loop of clear_prefix or of download_file is over,
\* it has collected every key under the prefix exactly once, whatever the
\* page size, each continuation request carrying the prefix and the last
\* key of the previous page as marker.
C5_ListingExhaustive ==
    /\ ClearListingOver =>
          /\ ExactlyOnce(to_delete, KeysUnder(bucket, op.prefix))
          /\ MarkersFollowPages(op.prefix)
    /\ DownloadListingOver =>
          /\ ExactlyOnce(to_download, KeysUnder(bucket, op.object_name))
          /\ MarkersFollowPages(op.object_name)

\* the last list request got a page that is not truncated, and every
\* request before it got a truncated page
EndedOnLastPage ==
    /\ lists # <<>>
    /\ \A j \in 1..Len(lists) :
          /\ lists[j].outcome = "ok"
          /\ lists[j].reply.IsTruncated <=> j < Len(lists)

\* C6: the listing loop of clear_prefix and of download_file ends by
\* receiving a page with truncated = false, after which no list request is
\* issued.
C6_ListingEndsOnUntruncatedPage ==
    /\ ClearListingOver => EndedOnLastPage
    /\ DownloadListingOver => EndedOnLastPage

(***************************************************************************)
(* Claims about digest_file_list (SpecDigest).                             *)
(***************************************************************************)
DigestReturned ==
    /\ call.fn = "digest_file_list"
    /\ ret.state = "returned"

OnlyRegularFiles(file_list) == \A i \in 1..Len(file_list) : os_path_isfile(file_list[i])

\* C7: a file list of regular files only and no archive path is mapped to
\* exactly one (file, key) pair per file, in which the key is
\* prefix/basename(file): it starts with the prefix and ends with the
\* basename of the file, the text after its last '/'.
C7_OnePairPerFileKeyedByBasename ==
    (DigestReturned /\ call.tar_archive_path = <<>> /\ OnlyRegularFiles(call.file_list))
    => LET pairs == ret.value.pairs
       IN  /\ ~ret.value.raised
           /\ Len(pairs) = Len(call.file_list)
           /\ \A i \in 1..Len(pairs) :
                 /\ pairs[i][1] = call.file_list[i]
                 /\ pairs[i][2] = os_path_join(call.prefix, os_path_basename(call.file_list[i]))
                 /\ StartsWith(pairs[i][2], call.prefix)
                 /\ EndsWith(pairs[i][2], os_path_basename(call.file_list[i]))

\* the regular files below directory D, however deep
FilesUnder(D) == { f \in FsFiles : StartsWith(f, D \o <<Slash>>) }

\* C8: a directory D of the file list is mapped to exactly one pair per
\* regular file below D, the file at D/d1/../dn/name under the key
\* prefix/basename(D)/d1/../dn/name, and to nothing else; an empty directory
\* gives no pair.
C8_DirectoryMappedOncePerFile ==
    (/\ DigestReturned
     /\ call.tar_archive_path = <<>>
     /\ Len(call.file_list) = 1
     /\ os_path_isdir(call.file_list[1]))
    => LET D == call.file_list[1]
           pairs == ret.value.pairs
           KeyOf(f) == os_path_join(os_path_join(call.prefix, os_path_basename(D)),
                                    DropChars(f, Len(D) + 1))
       IN  /\ SeqToSet(pairs) = { <<f, KeyOf(f)>> : f \in FilesUnder(D) }
           /\ Len(pairs) = Cardinality(FilesUnder(D))

\* C9: with an archive path and the archive built, digest_file_list returns
\* the single pair (archive_path, prefix/basename(archive_path)), whatever
\* the file list holds.
C9_ArchiveMappedToOnePair ==
    (DigestReturned /\ call.tar_archive_path # <<>> /\ ~ret.value.raised)
    => ret.value.pairs =
          << <<call.tar_archive_path,
               os_path_join(call.prefix, os_path_basename(call.tar_archive_path))>> >>

(***************************************************************************)
(* Claims about validate_s3_uri (SpecUri).                                 *)
(***************************************************************************)
\* the text between the scheme and the first '/' after it, and the text
\* after that '/'
UriBucket(uri) ==
    LET rest == DropChars(uri, 5)
    IN  IF Find(rest, Slash) = 0 THEN rest ELSE SubSeq(rest, 1, Find(rest, Slash) - 1)

UriObjectName(uri) ==
    LET rest == DropChars(uri, 5)
    IN  IF Find(rest, Slash) = 0 THEN <<>> ELSE DropChars(rest, Find(rest, Slash))

\* C10: validate_s3_uri accepts a URI exactly when it starts with 's3://',
\* has a bucket segment and has a non-empty object name after the first '/'
\* that follows the bucket.
C10_ValidIffSchemeBucketObject ==
    (call.fn = "validate_s3_uri" /\ ret.state = "returned")
    => (ret.value <=>
          /\ StartsWith(call.s3_uri, <<"s", "3", ":", "/", "/">>)
          /\ UriBucket(call.s3_uri) # <<>>
          /\ UriObjectName(call.s3_uri) # <<>>)

\* C11: for every URI that validate_s3_uri accepts, parse_s3_uri returns as
\* bucket the text between 's3://' and the first '/' after it and as object
\* name everything after that '/', so that 's3://' + bucket + '/' +
\* object name is the URI again, also when the object name contains '/'.
C11_ParseRoundTrip ==
    (call.fn = "parse_s3_uri" /\ ret.state = "returned" /\ validate_s3_uri(call.s3_uri))
    => /\ ret.value.bucket = UriBucket(call.s3_uri)
       /\ ret.value.object_name = UriObjectName(call.s3_uri)
       /\ <<"s", "3", ":", "/", "/">> \o ret.value.bucket \o <<Slash>>
              \o ret.value.object_name = call.s3_uri

C11_Witness ==
    /\ call.fn = "parse_s3_uri"
    /\ ret.state = "returned"
    /\ validate_s3_uri(call.s3_uri)
    /\ ret.value.bucket # <<>>
    /\ Contains(ret.value.object_name, <<Slash>>)
    /\ Head(ret.value.object_name) # Slash

(***************************************************************************)
(* Claims about download_s3_uri and the failures of remote calls (Spec).   *)
(***************************************************************************)
ViaUri == op.name \in {"download", "download_s3_uri"} /\ "s3_uri" \in DOMAIN op

\* C12: when the URI fails validation, download_s3_uri returns a
\* DownloadResult with success = False and an empty local path, and neither
\* a list nor a get request is made nor a store client constructed.
C12_InvalidUriNoStoreCall ==
    (ViaUri /\ ~validate_s3_uri(op.s3_uri))
    => /\ pc = "done"
       /\ result = ReturnedValue(DownloadResult(FALSE, <<>>))
       /\ ~op.s3_store
       /\ lists = <<>>
       /\ gets = <<>>
       /\ puts = <<>>

C12_Witness ==
    /\ ViaUri
    /\ ~validate_s3_uri(op.s3_uri)
    /\ StartsWith(op.s3_uri, <<"s", "3", ":", "/", "/">>)
    /\ result.kind = "returned"
    /\ bucket # {}

RemoteFailed == failures \cap {"transport", "rejected"} # {}

\* C13: no failure of a remote call escapes as an exception: when a list,
\* delete, put or get request has failed during transfer_to_s3 or
\* download_file, the call ends by returning False (a DownloadResult with
\* success = False) and not by raising.
C13_RemoteFailureReturnsFalse ==
    (pc \in {"done", "raised"} /\ RemoteFailed)
    => /\ result.kind = "returned"
       /\ InTransfer => result.value = FALSE
       /\ InDownload => ~result.value.success

(***************************************************************************)
(* Claims about the archive of a transfer (Spec).                          *)
(***************************************************************************)
WithArchive == InTransfer /\ op.tar_archive_path # <<>>

\* the archive cannot be made: no parent directory, wrong extension, or a
\* member that does not exist
ArchiveImpossible ==
    \/ ~os_path_exists(path_parent(op.tar_archive_path))
    \/ ~EndsWith(op.tar_archive_path, COMPRESSED_TAR_EXTENSION)
    \/ \E i \in 1..Len(op.file_list) : ~os_path_exists(op.file_list[i])

AbortedByDigest == pc = "raised" /\ result.at = "digest_file_list"

\* C16: when the archive cannot be created, tar_list_of_files returns False
\* without raising, digest_file_list raises, and the transfer_to_s3 call
\* that asked for the archive is aborted by that exception with no put
\* request made.
C16_ArchiveFailureAbortsTransfer ==
    WithArchive
    => /\ ArchiveImpossible
          => /\ \A io_ok \in BOOLEAN :
                   /\ ~tar_list_of_files(op.tar_archive_path, op.file_list, io_ok)
                   /\ digest_file_list(op.file_list, op.prefix,
                                       op.tar_archive_path, io_ok).raised
             /\ pc \notin {"upload", "done"}
             /\ pc = "raised" => result.at \in {"clear_prefix", "digest_file_list"}
       /\ AbortedByDigest
          => /\ result.exc = "Exception"
             /\ puts = <<>>
             /\ file_and_key_list = <<>>
       /\ pc \in {"digest", "clear_list", "clear_list_next", "clear_delete"}
          => puts = <<>>

C16_Witness ==
    /\ WithArchive
    /\ AbortedByDigest
    /\ os_path_exists(path_parent(op.tar_archive_path))
    /\ ~EndsWith(op.tar_archive_path, COMPRESSED_TAR_EXTENSION)
    /\ op.file_list # <<>>
    /\ to_delete # <<>>

(***************************************************************************)
(* Claims about the retrieval mode of download_file (Spec).                *)
(***************************************************************************)
SingleMode == InDownload /\ Contains(op.object_name, TarGz)

\* C18: when the object name contains 'tar.gz', download_file makes exactly
\* one get request, for that object, and no list request, and its success
\* is the outcome of that get; otherwise it lists the prefix first, and when
\* the listing holds no key it returns success = False without any get.
C18_RetrievalModeSelection ==
    /\ SingleMode
       => /\ lists = <<>>
          /\ pc \in {"get_single", "done"}
          /\ pc = "get_single" => gets = <<>>
          /\ pc = "done"
             => /\ Len(gets) = 1
                /\ gets[1].Key = op.object_name
                /\ result.kind = "returned"
                /\ result.value.success = gets[1].ok
    /\ PrefixMode
       => /\ pc # "get_single"
          /\ pc = "list_v2" => (lists = <<>> /\ gets = <<>>)
          /\ pc # "list_v2"
             => /\ lists # <<>>
                /\ lists[1].api = "list_objects_v2"
                /\ lists[1].Prefix = op.object_name
          /\ (lists # <<>> /\ lists[1].outcome = "ok" /\ lists[1].reply.KeyCount = 0)
             => /\ pc = "done"
                /\ Len(lists) = 1
                /\ gets = <<>>
                /\ result.kind = "returned"
                /\ ~result.value.success

C18_Witness ==
    /\ SingleMode
    /\ pc = "done"
    /\ result.value.success
    /\ prev.name = "transfer"

(***************************************************************************)
(* Claims about the keys a transfer touches (Spec).                        *)
(***************************************************************************)
Outside(b, prefix) == { k \in b : ~StartsWith(k, prefix) }

AllUnder(keys, prefix) == \A i \in 1..Len(keys) : StartsWith(keys[i], prefix)

\* C20: transfer_to_s3 deletes and writes only objects whose key begins with
\* the prefix: no step of a call, whether the call returns True, returns
\* False or is aborted, adds, removes or writes an object whose key does not
\* begin with the prefix.
C20_OutsidePrefixUntouched ==
    [][ (op'.name = "transfer")
        => /\ Outside(bucket', op'.prefix) = Outside(bucket, op'.prefix)
           /\ AllUnder(to_delete', op'.prefix)
           /\ AllUnder([i \in 1..Len(puts') |-> puts'[i].Key], op'.prefix)
           /\ AllUnder([i \in 1..Len(file_and_key_list') |-> file_and_key_list'[i][2]],
                       op'.prefix) ]_vars

C20_Witness ==
    /\ InTransfer
    /\ pc = "done"
    /\ result.value = TRUE
    /\ Outside(bucket, op.prefix) # {}
    /\ to_delete # <<>>
    /\ Len(puts) > 1

(***************************************************************************)
(* Claims about the local paths of a download (Spec).                      *)
(***************************************************************************)
\* the segments of a path, joined by '/'
RECURSIVE PathOf(_)
PathOf(segs) ==
    IF segs = <<>> THEN <<>>
    ELSE IF Len(segs) = 1 THEN segs[1]
    ELSE segs[1] \o <<Slash>> \o PathOf(Tail(segs))

\* the root of the downloaded tree, under the output folder
TreeRoot == <<OutputFolder, os_path_basename(op.object_name)>>

\* the key without its first two segments
BelowSecond(key) == SubSeq(Split(key, Slash), 3, Len(Split(key, Slash)))

\* C17 as stated: for every listed key, whatever its number of segments
\* s1/.../sn, download_file discards exactly the first two segments and
\* writes the object under the output folder with s3..s(n-1) as nested
\* sub-directories and sn as file name.
C17_FirstTwoSegmentsDiscarded ==
    PrefixMode
    => \A j \in 1..Len(gets) :
          gets[j].Filename = PathOf(TreeRoot \o BelowSecond(gets[j].Key))

\* C17 amended: the same for every listed key of at least three segments;
\* a key of one or two segments is written under its last segment directly
\* in the root of the downloaded tree, so fewer than two segments are
\* discarded.
C17_Amended ==
    PrefixMode
    => \A j \in 1..Len(gets) :
          LET segs == Split(gets[j].Key, Slash)
          IN  /\ Len(segs) >= 3
                 => gets[j].Filename = PathOf(TreeRoot \o BelowSecond(gets[j].Key))
              /\ Len(segs) < 3
                 => gets[j].Filename = PathOf(TreeRoot \o <<segs[Len(segs)]>>)

C17_Witness ==
    /\ PrefixMode
    /\ \E j \in 1..Len(gets) : Len(Split(gets[j].Key, Slash)) = 4 /\ gets[j].ok
    /\ \E j \in 1..Len(gets) : Len(Split(gets[j].Key, Slash)) = 3

(***************************************************************************)
(* Claims about Task (SpecTask).                                           *)
(***************************************************************************)
Called(name) == last_call.kind # "none" /\ last_call.method = name

GuardError(name, exc) ==
    /\ Called(name)
    /\ last_call.kind = "raised"
    /\ last_call.exc = exc
    /\ task = last_call.before
    /\ Len(api_calls) = last_call.calls_before

SuccessfulRegistrations ==
    { j \in 1..Len(api_calls) : api_calls[j].method = "register" /\ api_calls[j].ok }

\* C14: register raises APIRegistrationError when task_id is already set
\* and otherwise MissingEndpointError when no api is set; run and retry
\* raise APIRegistrationError when task_id is None and otherwise
\* MissingEndpointError when no api is set; in each of these cases no api
\* method is called and task_id and api are unchanged; so api.run and
\* api.retry are only called for a registered task with an endpoint, and
\* task_id is assigned at most once.
C14_TaskLifecycleGuards ==
    /\ (Called("register") /\ last_call.before.task_id # None)
       => GuardError("register", "APIRegistrationError")
    /\ (Called("register") /\ last_call.before.task_id = None
          /\ last_call.before.api = None)
       => GuardError("register", "MissingEndpointError")
    /\ \A name \in {"run", "retry"} :
          /\ (Called(name) /\ last_call.before.task_id = None)
             => GuardError(name, "APIRegistrationError")
          /\ (Called(name) /\ last_call.before.task_id # None
                /\ last_call.before.api = None)
             => GuardError(name, "MissingEndpointError")
    /\ \A j \in 1..Len(api_calls) :
          /\ api_calls[j].api # None
          /\ api_calls[j].method \in {"run", "retry"} => api_calls[j].task_id # None
          /\ api_calls[j].method = "register" => api_calls[j].task_id = None
    /\ Cardinality(SuccessfulRegistrations) <= 1
    /\ (last_call.kind # "none" /\ last_call.before.task_id # None)
       => task.task_id = last_call.before.task_id

C14_Witness ==
    /\ GuardError("run", "MissingEndpointError")
    /\ \E j \in 1..Len(api_calls) : api_calls[j].method = "run" /\ api_calls[j].ok
    /\ \E j \in 1..Len(api_calls) : api_calls[j].method = "register" /\ ~api_calls[j].ok
    /\ SuccessfulRegistrations # {}

\* C19: isDone returns (task_state == 200) without calling the api whenever
\* task_state is set, also for a task that is unregistered or has no
\* endpoint; only when task_state is None does it consult the api, raising
\* APIRegistrationError if task_id is None and MissingEndpointError if no
\* api is set, and otherwise returning api.isDone(task_id); it never changes
\* task_id, task_state or api.
C19_IsDoneStateFirst ==
    Called("isDone")
    => LET b == last_call.before
       IN  /\ task = b
           /\ b.task_state # None
              => /\ last_call.kind = "returned"
                 /\ last_call.value = (b.task_state = Some(DoneState))
                 /\ Len(api_calls) = last_call.calls_before
           /\ (b.task_state = None /\ b.task_id = None)
              => GuardError("isDone", "APIRegistrationError")
           /\ (b.task_state = None /\ b.task_id # None /\ b.api = None)
              => GuardError("isDone", "MissingEndpointError")
           /\ (b.task_state = None /\ b.task_id # None /\ b.api # None)
              => /\ Len(api_calls) = last_call.calls_before + 1
                 /\ api_calls[Len(api_calls)] =
                       [method |-> "isDone", api |-> b.api, task_id |-> b.task_id,
                        ok |-> last_call.kind = "returned"]

C19_Witness ==
    /\ Called("isDone")
    /\ last_call.kind = "returned"
    /\ last_call.value = TRUE
    /\ last_call.before.task_state = Some(DoneState)
    /\ last_call.before.task_id = None
    /\ last_call.before.api = None
    /\ api_calls = <<>>

(***************************************************************************)
(* Claims about two concurrent transfers (SpecRace).                       *)
(***************************************************************************)
OtherMappedKeys ==
    MappedKeys([file_list |-> other.file_list, prefix |-> TransferPrefix,
                tar_archive_path |-> <<>>])

BothReturnedTrue ==
    /\ InTransfer
    /\ pc = "done"
    /\ result = ReturnedValue(TRUE)
    /\ other.pc = "done"
    /\ other.result = ReturnedValue(TRUE)

\* C15: two transfer_to_s3 calls on the same bucket and prefix with
\* different file lists are not mutually exclusive: their steps interleave,
\* and there is an interleaving after which both have returned True and
\* the keys under the prefix are the mapping of neither call (the state of
\* C15_Witness).  What every interleaving keeps: when both have returned
\* True, each key under the prefix is a mapped key of one of the two calls
\* and the mapped keys of at least one call are all present.
C15_ConcurrentTransfersMix ==
    BothReturnedTrue
    => /\ KeysUnder(bucket, TransferPrefix) \subseteq MappedKeys(op) \cup OtherMappedKeys
       /\ \/ MappedKeys(op) \subseteq bucket
          \/ OtherMappedKeys \subseteq bucket

C15_Witness ==
    /\ BothReturnedTrue
    /\ op.file_list # other.file_list
    /\ KeysUnder(bucket, TransferPrefix) # MappedKeys(op)
    /\ KeysUnder(bucket, TransferPrefix) # OtherMappedKeys

====
